---- MODULE Spec2Model ----
(***************************************************************************)
(* Runtime generic-function dispatch.                                      *)
(*                                                                         *)
(*   multidispatch   (multiarg_dispatch/main.py): an insertion-ordered     *)
(*                   registry from tuples of type specifiers to            *)
(*                   implementations, resolved by first structural match.  *)
(*   singledispatch  (src/__init__.py): a registry from types to           *)
(*                   implementations, resolved along the extended C3       *)
(*                   linearization of the runtime type, with a cache.      *)
(*   the linearizer  (src/__init__.py): _c3_merge and _c3_mro, which are   *)
(*                   also followed on their own, called with arguments of  *)
(*                   their own (SpecLinearizer).                           *)
(*                                                                         *)
(* A type is a string (its name).  A type specifier is the set of its      *)
(* member types: a plain class is a singleton, X | Y is {X, Y}.  An        *)
(* implementation is a natural number: 0 is the default implementation     *)
(* given at definition, i > 0 the function object handed to the i-th       *)
(* register call.                                                          *)
(***************************************************************************)
EXTENDS Naturals, Sequences, FiniteSets, TLC

VARIABLES
    generic,        \* the decorator applied: "multidispatch" or "singledispatch";
                    \* "linearizer" when the linearizer is called on its own
    m_registry,     \* multidispatch: registry (dict, in insertion order)
    m_count,        \* multidispatch: number of register calls made so far
    m_last,         \* multidispatch: the last call of the generic function
    registry,       \* singledispatch: registry (dict, in insertion order)
    dispatch_cache, \* singledispatch: dispatch_cache
    cache_token,    \* singledispatch: cache_token (NoToken or a token)
    s_count,        \* singledispatch: number of register calls made so far
    s_last,         \* singledispatch: the last dispatch(cls) call
    abc_registry,   \* the ABCs' registries: pairs <<abc, registered class>>
    abc_token,      \* abc.get_cache_token()
    l_call,         \* linearizer: the call made, function and arguments
    l_result        \* linearizer: what the call returned or raised

m_vars == <<m_registry, m_count, m_last>>
s_vars == <<registry, dispatch_cache, cache_token, s_count, s_last,
            abc_registry, abc_token>>
l_vars == <<l_call, l_result>>
vars == <<generic, m_registry, m_count, m_last, registry, dispatch_cache, cache_token,
          s_count, s_last, abc_registry, abc_token, l_call, l_result>>

None == "None"

(***************************************************************************)
(* Bounds.                                                                 *)
(***************************************************************************)
MaxRegsM == 2     \* register calls on the multidispatch function
MaxRegsS == 2     \* register calls on the singledispatch function
MaxSeqs == 3      \* sequences handed to _c3_merge
MaxAbcs == 2      \* abstract candidates handed to _c3_mro

(***************************************************************************)
(* The classes.  object; the concrete classes int, bool(int), str, list;   *)
(* the abstract base classes A0, A(A0), B, and collections.abc.Hashable,   *)
(* which recognizes its implementers by a __subclasshook__.                *)
(***************************************************************************)
Types == {"object", "int", "bool", "str", "list", "A0", "A", "B", "Hashable"}
ABCs == {"A0", "A", "B", "Hashable"}

\* cls.__bases__
Bases(cls) ==
    CASE cls = "object" -> <<>>
      [] cls = "bool" -> <<"int">>
      [] cls = "A" -> <<"A0">>
      [] OTHER -> <<"object">>

\* cls.__mro__ (the classes above are singly inherited: a chain)
RECURSIVE mro_chain(_)
mro_chain(cls) ==
    IF Bases(cls) = <<>> THEN <<cls>>
    ELSE <<cls>> \o mro_chain(Bases(cls)[1])

MroTable == [cls \in Types |-> mro_chain(cls)]
Mro(cls) == MroTable[cls]

Range(s) == {s[i] : i \in DOMAIN s}

\* hasattr(cls, "__abstractmethods__")
HasAbstractMethods(cls) == cls \in ABCs

\* The classes in the order of their definition
TypeOrder == <<"object", "int", "bool", "str", "list", "Hashable", "A0", "A",
               "B">>

\* base.__subclasses__(): the direct subclasses, in definition order
subclasses(base) ==
    SelectSeq(TypeOrder, LAMBDA c : base \in Range(Bases(c)))

(***************************************************************************)
(* issubclass(sub, cls), as the dispatchers call it.  For a plain class it *)
(* is membership in sub.__mro__; for an abstract base class it is also     *)
(* true of a class registered with cls (abc_registry) and of a subclass of *)
(* such a class or of a subclass of cls.  reg is the ABCs' registry.  The  *)
(* __subclasshook__ of cls is asked first: Hashable's accepts every class  *)
(* whose __hash__ is not None (list sets it to None), and leaves the       *)
(* others to the registry.                                                 *)
(***************************************************************************)
subclasshook(cls, sub) == cls = "Hashable" /\ sub # "list"

RECURSIVE issubclass(_, _, _)
issubclass(sub, cls, reg) ==
    \/ subclasshook(cls, sub)
    \/ cls \in Range(Mro(sub))
    \/ /\ cls \in ABCs
       /\ \/ \E p \in reg : p[1] = cls /\ issubclass(sub, p[2], reg)
          \/ \E scls \in Range(subclasses(cls)) : issubclass(sub, scls, reg)

(***************************************************************************)
(* multidispatch (multiarg_dispatch/main.py).                              *)
(***************************************************************************)
\* n_arguments: the parameters of the default implementation, (a, b=None)
n_arguments == 2
ParamNames == <<"a", "b">>

\* The classes of the argument values and the annotations register sees.
MArgTypes == {"object", "bool", "str"}
MSpecifiers == {{"int"}, {"str"}, {"int", "str"}}

\* _is_union_type(cls)
is_union_type(cls) == Cardinality(cls) > 1

\* get_args(cls) of a union
get_args(cls) == cls

\* issubclass(arg, reg) where reg is a registered specifier: a class, or a
\* union, whose __subclasscheck__ accepts a subclass of any member.
issubclass_spec(arg, reg) ==
    \E r \in reg : issubclass(arg, r, abc_registry)

\* match_step with the check of plain classes left to the union branch
match_step_union_only(match, arg, reg) ==
    IF /\ is_union_type(reg)
       /\ ~(\E r \in get_args(reg) : issubclass(arg, r, abc_registry))
    THEN FALSE ELSE match

\* match_step asking a union for all its members and a class for nothing more
match_step_all(match, arg, reg) ==
    IF is_union_type(reg)
    THEN (IF \A r \in get_args(reg) : issubclass(arg, r, abc_registry)
          THEN match ELSE FALSE)
    ELSE (IF issubclass_spec(arg, reg) THEN match ELSE FALSE)

\* One round of the inner loop of _find_impl: the value of match after
\* comparing arg with reg.
match_step(match, arg, reg) ==
    LET m1 == IF /\ is_union_type(reg)
                 /\ ~(\E r \in get_args(reg) : issubclass(arg, r, abc_registry))
              THEN FALSE ELSE match
    IN  IF ~issubclass_spec(arg, reg) THEN FALSE ELSE m1

\* zip(arg_types, registered_types): the positions both sequences have
Min(a, b) == IF a < b THEN a ELSE b
zip_len(arg_types, registered_types) ==
    Min(Len(arg_types), Len(registered_types))

\* The inner loop of _find_impl over the first n zipped positions.
RECURSIVE match_loop(_, _, _)
match_loop(arg_types, registered_types, n) ==
    IF n = 0 THEN TRUE
    ELSE match_step(match_loop(arg_types, registered_types, n - 1),
                    arg_types[n], registered_types[n])

\* entry_matches with the length check of src/multidispatch.py
entry_matches_same_len(arg_types, registered_types) ==
    /\ Len(arg_types) = Len(registered_types)
    /\ match_loop(arg_types, registered_types, Len(arg_types))

entry_matches(arg_types, registered_types) ==
    match_loop(arg_types, registered_types,
               zip_len(arg_types, registered_types))

\* _find_impl(arg_types, registry) from entry i on: the implementation of the
\* first entry, in insertion order, that is not the default and matches.
RECURSIVE find_impl_from(_, _, _)
find_impl_from(arg_types, reg, i) ==
    IF i > Len(reg) THEN
        (CHOOSE e \in Range(reg) : e.isobject).impl
    ELSE IF reg[i].isobject THEN find_impl_from(arg_types, reg, i + 1)
    ELSE IF entry_matches(arg_types, reg[i].key) THEN reg[i].impl
    ELSE find_impl_from(arg_types, reg, i + 1)

\* multi_find_impl comparing the default entry like any other: every class
\* is a subclass of object, so the first entry of the registry always matches
multi_find_impl_default_compared(arg_types, reg) ==
    reg[CHOOSE i \in DOMAIN reg :
          /\ reg[i].isobject \/ entry_matches(arg_types, reg[i].key)
          /\ \A j \in 1..(i - 1) :
                ~(reg[j].isobject \/ entry_matches(arg_types, reg[j].key))].impl

multi_find_impl(arg_types, reg) == find_impl_from(arg_types, reg, 1)

\* The tuple of classes cls as a dictionary key: it equals a registered key
\* of the same length whose specifiers are those very classes.
as_key(cls) == [i \in DOMAIN cls |-> {cls[i]}]

\* registry[key] = func on an insertion-ordered dict: a present key keeps its
\* place and takes the new value, a new key goes last.
dict_set(reg, key, func) ==
    IF \E i \in DOMAIN reg : ~reg[i].isobject /\ reg[i].key = key
    THEN [i \in DOMAIN reg |->
            IF ~reg[i].isobject /\ reg[i].key = key
            THEN [reg[i] EXCEPT !.impl = func] ELSE reg[i]]
    ELSE Append(reg, [isobject |-> FALSE, key |-> key, impl |-> func])

\* multidispatch.dispatch(cls)
multi_dispatch(cls, reg) ==
    IF \E i \in DOMAIN reg : ~reg[i].isobject /\ reg[i].key = as_key(cls)
    THEN (CHOOSE e \in Range(reg) : ~e.isobject /\ e.key = as_key(cls)).impl
    ELSE multi_find_impl(cls, reg)

\* The classes wrapper hands to dispatch: those of the positional values,
\* then those of the named values in the order of the call site.
cls_args(args, kw) == args \o [i \in DOMAIN kw |-> kw[i][2]]

(***************************************************************************)
(* What register(func) reads of func: one annotation per parameter.  An    *)
(* annotation is a class, a union of classes, missing, something that is   *)
(* no class, or a union with a member that is no class.                    *)
(***************************************************************************)
Ann(kind, types) == [kind |-> kind, types |-> types]
ValidAnns == {Ann(IF Cardinality(sp) > 1 THEN "union" ELSE "class", sp) :
                sp \in MSpecifiers}
Tuples(S, n) == [1..n -> S]
ValidFuncs == Tuples(ValidAnns, n_arguments)
InvalidFuncs ==
    { <<Ann("class", {"int"})>>,
      <<Ann("class", {"int"}), Ann("class", {"str"}), Ann("class", {"int"})>>,
      <<Ann("missing", {}), Ann("class", {"int"})>>,
      <<Ann("notaclass", {}), Ann("class", {"int"})>>,
      <<Ann("class", {"int"}), Ann("badunion", {"int"})>> }
RegisterInputs == ValidFuncs \cup InvalidFuncs

\* get_type_hints(func) without "return": the annotated parameters
arg_type_hints(func) == SelectSeq(func, LAMBDA a : a.kind # "missing")

\* _is_valid_dispatch_type(cls)
is_valid_dispatch_type(ann) == ann.kind \in {"class", "union"}

\* register_error without the comparison of len(clss) with n_arguments
register_error_any_count(func) ==
    IF Len(arg_type_hints(func)) # Len(func) THEN "TypeError: annotations"
    ELSE IF \E i \in DOMAIN func : ~is_valid_dispatch_type(func[i])
    THEN "TypeError: invalid annotation"
    ELSE None

\* The outcome of register(func): the error it raises, or None.
register_error(func) ==
    IF Len(arg_type_hints(func)) # Len(func) THEN "TypeError: annotations"
    ELSE IF \E i \in DOMAIN func : ~is_valid_dispatch_type(func[i])
    THEN "TypeError: invalid annotation"
    ELSE IF n_arguments # Len(func) THEN "TypeError: expected types"
    ELSE None

\* tuple(clss)
clss(func) == [i \in DOMAIN func |-> func[i].types]

NoCall == [op |-> "none", args |-> <<>>, kw |-> <<>>, impl |-> 0,
           error |-> None]

\* multidispatch.register(func); func becomes implementation m_count + 1
multi_register(func) ==
    /\ generic = "multidispatch"
    /\ m_count < MaxRegsM
    /\ IF register_error(func) # None
       THEN /\ m_last' = [NoCall EXCEPT !.op = "register",
                                        !.error = register_error(func)]
            /\ UNCHANGED <<m_registry, m_count>>
       ELSE /\ m_registry' = dict_set(m_registry, clss(func), m_count + 1)
            /\ m_count' = m_count + 1
            /\ m_last' = [NoCall EXCEPT !.op = "register",
                                        !.impl = m_count + 1]
    /\ UNCHANGED <<generic, l_vars, s_vars>>

\* The call sites that bind the first k parameters, k <= n_arguments: the
\* first np by position, the others by name in any order.  A named argument
\* is a pair <<name, class of the value>>.
Perms(S) == {p \in Tuples(S, Cardinality(S)) :
               \A i, j \in DOMAIN p : i # j => p[i] # p[j]}
KwArgs(np, k) ==
    {kw \in Tuples(Range(ParamNames) \X MArgTypes, k - np) :
       \E p \in Perms({ParamNames[i] : i \in (np + 1)..k}) :
          \A i \in DOMAIN kw : kw[i][1] = p[i]}
CallSites ==
    UNION {Tuples(MArgTypes, c[1]) \X KwArgs(c[1], c[2]) :
             c \in {d \in (0..n_arguments) \X (0..n_arguments) : d[1] <= d[2]}}

\* multi_wrapper without the test "if not args and not kw"
multi_wrapper_unguarded(args, kw) ==
    /\ generic = "multidispatch"
    /\ m_last' = [op |-> "call", args |-> args, kw |-> kw,
                  impl |-> multi_dispatch(cls_args(args, kw), m_registry),
                  error |-> None]
    /\ UNCHANGED <<generic, l_vars, m_registry, m_count, s_vars>>

\* multidispatch.wrapper(*args, **kw), up to the choice of implementation
multi_wrapper(args, kw) ==
    /\ generic = "multidispatch"
    /\ IF args = <<>> /\ kw = <<>>
       THEN m_last' = [NoCall EXCEPT !.op = "call",
                                     !.error = "TypeError: requires argument"]
       ELSE m_last' = [op |-> "call", args |-> args, kw |-> kw,
                       impl |-> multi_dispatch(cls_args(args, kw), m_registry),
                       error |-> None]
    /\ UNCHANGED <<generic, l_vars, m_registry, m_count, s_vars>>

(***************************************************************************)
(* singledispatch (src/__init__.py): the linearizer.  A linearization is   *)
(* [error |-> None, mro |-> the sequence], or the error raised.            *)
(***************************************************************************)
Inconsistent == [error |-> "Inconsistent hierarchy", mro |-> <<>>]

\* sequences = [s for s in sequences if s]
purge(sequences) == SelectSeq(sequences, LAMBDA s : s # <<>>)

\* candidate in s2[1:] for some s2 in sequences
in_some_tail(candidate, sequences) ==
    \E j \in DOMAIN sequences :
        \E k \in 2..Len(sequences[j]) : sequences[j][k] = candidate

\* merge_candidate taking the head of the last sequence whose head is in no
\* tail
merge_candidate_last(sequences) ==
    IF \A i \in DOMAIN sequences : in_some_tail(sequences[i][1], sequences)
    THEN None
    ELSE sequences[CHOOSE i \in DOMAIN sequences :
                     /\ ~in_some_tail(sequences[i][1], sequences)
                     /\ \A j \in (i + 1)..Len(sequences) :
                          in_some_tail(sequences[j][1], sequences)][1]

\* The for loops of _c3_merge: the head of the first sequence whose head is in
\* no tail, None when every head is rejected.
merge_candidate(sequences) ==
    IF \A i \in DOMAIN sequences : in_some_tail(sequences[i][1], sequences)
    THEN None
    ELSE sequences[CHOOSE i \in DOMAIN sequences :
                     /\ ~in_some_tail(sequences[i][1], sequences)
                     /\ \A j \in 1..(i - 1) :
                          in_some_tail(sequences[j][1], sequences)][1]

\* for seq in sequences: if seq[0] == candidate: del seq[0]
remove_candidate(sequences, candidate) ==
    [i \in DOMAIN sequences |->
        IF sequences[i][1] = candidate THEN Tail(sequences[i])
        ELSE sequences[i]]

\* The while loop of _c3_merge
RECURSIVE c3_merge_loop(_, _)
c3_merge_loop(sequences, result) ==
    LET seqs == purge(sequences)
    IN  IF seqs = <<>> THEN [error |-> None, mro |-> result]
        ELSE LET candidate == merge_candidate(seqs)
             IN  IF candidate = None THEN Inconsistent
                 ELSE c3_merge_loop(remove_candidate(seqs, candidate),
                                    Append(result, candidate))

\* _c3_merge(sequences)
c3_merge(sequences) == c3_merge_loop(sequences, <<>>)

\* boundary in _c3_mro: the position of the last base that is an ABC, or 0
boundary(cls) ==
    LET abs == {i \in DOMAIN Bases(cls) : HasAbstractMethods(Bases(cls)[i])}
    IN  IF abs = {} THEN 0 ELSE CHOOSE i \in abs : \A j \in abs : j <= i

\* abstract_bases in _c3_mro: the candidates cls introduces
abstract_bases(cls, abcs) ==
    SelectSeq(abcs, LAMBDA base :
        /\ issubclass(cls, base, abc_registry)
        /\ ~\E b \in Range(Bases(cls)) : issubclass(b, base, abc_registry))

\* _c3_mro(cls, abcs)
RECURSIVE c3_mro(_, _)
c3_mro(cls, abcs) ==
    LET explicit_bases == SubSeq(Bases(cls), 1, boundary(cls))
        other_bases == SubSeq(Bases(cls), boundary(cls) + 1, Len(Bases(cls)))
        abstract == abstract_bases(cls, abcs)
        rest == SelectSeq(abcs, LAMBDA base : base \notin Range(abstract))
        bases == explicit_bases \o abstract \o other_bases
        mros == [i \in DOMAIN bases |-> c3_mro(bases[i], rest)]
    IN  IF \E i \in DOMAIN mros : mros[i].error # None THEN Inconsistent
        ELSE c3_merge(<< <<cls>> >> \o [i \in DOMAIN mros |-> mros[i].mro]
                      \o <<explicit_bases, abstract, other_bases>>)

\* is_related(typ) in _compose_mro
is_related(cls, typ) ==
    /\ typ \notin Range(Mro(cls))
    /\ issubclass(cls, typ, abc_registry)

\* is_strict_base(typ) in _compose_mro, types being the related ones
is_strict_base(typ, types) ==
    \E i \in DOMAIN types : typ # types[i] /\ typ \in Range(Mro(types[i]))

\* found.sort(key=len, reverse=True): stable, longest first
RECURSIVE sort_by_len(_)
sort_by_len(found) ==
    IF found = <<>> THEN <<>>
    ELSE LET i == CHOOSE i \in DOMAIN found :
                    /\ \A j \in DOMAIN found : Len(found[j]) <= Len(found[i])
                    /\ \A j \in 1..(i - 1) : Len(found[j]) < Len(found[i])
         IN  <<found[i]>> \o
             sort_by_len(SubSeq(found, 1, i - 1)
                         \o SubSeq(found, i + 1, Len(found)))

\* for subcls in sub: if subcls not in mro: mro.append(subcls)
RECURSIVE append_new(_, _)
append_new(mro, sub) ==
    IF sub = <<>> THEN mro
    ELSE append_new(IF Head(sub) \in Range(mro) THEN mro
                    ELSE Append(mro, Head(sub)), Tail(sub))

RECURSIVE append_all(_, _)
append_all(mro, found) ==
    IF found = <<>> THEN mro
    ELSE append_all(append_new(mro, Head(found)), Tail(found))

\* The loop "for typ in types" of _compose_mro from position i on
RECURSIVE compose_loop(_, _, _, _)
compose_loop(cls, types, i, mro) ==
    IF i > Len(types) THEN mro
    ELSE LET subs == SelectSeq(subclasses(types[i]), LAMBDA sub :
                        /\ sub \notin Range(Mro(cls))
                        /\ issubclass(cls, sub, abc_registry))
             found == [k \in DOMAIN subs |->
                         SelectSeq(Mro(subs[k]),
                                   LAMBDA t : t \in Range(types))]
         IN  compose_loop(cls, types, i + 1,
                          IF found = <<>> THEN Append(mro, types[i])
                          ELSE append_all(mro, sort_by_len(found)))

\* _compose_mro(cls, types)
compose_mro(cls, types) ==
    LET related == SelectSeq(types, LAMBDA n : is_related(cls, n))
        kept == SelectSeq(related, LAMBDA n : ~is_strict_base(n, related))
    IN  c3_mro(cls, compose_loop(cls, kept, 1, <<>>))

(***************************************************************************)
(* singledispatch: resolution.  An outcome is [impl |-> i, error |-> None] *)
(* or [impl |-> 0, error |-> the RuntimeError raised].                     *)
(***************************************************************************)
Returns(impl) == [impl |-> impl, error |-> None]
Raises(error) == [impl |-> 0, error |-> error]

\* registry.keys()
keys(reg) == [i \in DOMAIN reg |-> reg[i].key]

\* registry[key], key being present
get(reg, key) == (CHOOSE e \in Range(reg) : e.key = key).impl

\* The loop "for t in mro" of _find_impl from position i on
RECURSIVE find_loop(_, _, _, _, _)
find_loop(cls, reg, mro, i, match) ==
    IF i > Len(mro) THEN match
    ELSE IF match # None THEN
        IF /\ mro[i] \in Range(keys(reg))
           /\ mro[i] \notin Range(Mro(cls))
           /\ match \notin Range(Mro(cls))
           /\ ~issubclass(match, mro[i], abc_registry)
        THEN "Ambiguous dispatch"
        ELSE match
    ELSE find_loop(cls, reg, mro, i + 1,
                   IF mro[i] \in Range(keys(reg)) THEN mro[i] ELSE None)

\* _find_impl(cls, registry)
find_impl(cls, reg) ==
    LET lin == compose_mro(cls, keys(reg))
        match == find_loop(cls, reg, lin.mro, 1, None)
    IN  IF lin.error # None THEN Raises(lin.error)
        ELSE IF match = "Ambiguous dispatch" THEN Raises(match)
        ELSE Returns(get(reg, match))

\* cache_token = None: abc.get_cache_token() counts from 1 here
NoToken == 0

\* dispatch_cache after the token check of dispatch(cls)
cache_checked ==
    IF cache_token # NoToken /\ cache_token # abc_token THEN {}
    ELSE dispatch_cache

\* cache_token after the token check of dispatch(cls)
token_checked ==
    IF cache_token # NoToken /\ cache_token # abc_token THEN abc_token
    ELSE cache_token

\* The outcome of dispatch(cls): the cached implementation, else the one
\* registered for cls itself, else what _find_impl gives.
dispatch_outcome(cls) ==
    IF \E c \in cache_checked : c[1] = cls
    THEN Returns((CHOOSE c \in cache_checked : c[1] = cls)[2])
    ELSE IF cls \in Range(keys(registry)) THEN Returns(get(registry, cls))
    ELSE find_impl(cls, registry)

\* The classes dispatch is called with
DispatchTypes == {"object", "int", "bool"}

NoDispatch == [cls |-> None, impl |-> 0, error |-> None]

\* singledispatch.dispatch(cls)
dispatch(cls) ==
    /\ generic = "singledispatch"
    /\ cache_token' = token_checked
    /\ LET out == dispatch_outcome(cls)
       IN  /\ dispatch_cache' =
                 IF out.error = None
                 THEN cache_checked \cup {<<cls, out.impl>>}
                 ELSE cache_checked
           /\ s_last' = [cls |-> cls, impl |-> out.impl, error |-> out.error]
    /\ UNCHANGED <<generic, l_vars, m_vars, registry, s_count, abc_registry,
                   abc_token>>

\* registry_set keeping the first implementation of a key already present
registry_set_keep_first(reg, key, func) ==
    IF key \in Range(keys(reg)) THEN reg
    ELSE Append(reg, [key |-> key, impl |-> func])

\* registry[key] = func on the insertion-ordered dict of singledispatch
registry_set(reg, key, func) ==
    IF key \in Range(keys(reg))
    THEN [i \in DOMAIN reg |->
            IF reg[i].key = key THEN [reg[i] EXCEPT !.impl = func]
            ELSE reg[i]]
    ELSE Append(reg, [key |-> key, impl |-> func])

\* for arg in cls.__args__: registry[arg] = func
RECURSIVE registry_set_all(_, _, _)
registry_set_all(reg, args, func) ==
    IF args = <<>> THEN reg
    ELSE registry_set_all(registry_set(reg, Head(args), func), Tail(args),
                          func)

\* What register(cls, func) is given as cls: a class, a union (its __args__
\* in order), or something that is neither.
SAnn(kind, args) == [kind |-> kind, args |-> args]
SRegisterInputs ==
    {SAnn("class", <<c>>) : c \in {"object", "int", "A0", "A", "B"}}
    \cup {SAnn("union", <<"A", "B">>), SAnn("notaclass", <<>>)}

\* The registry after the assignments of register(cls, func)
registered(reg, cls, func) ==
    IF cls.kind = "union" THEN registry_set_all(reg, cls.args, func)
    ELSE registry_set(reg, cls.args[1], func)

\* hasattr(cls, "__abstractmethods__") of the first argument of register
cls_is_abstract(cls) == cls.kind = "class" /\ HasAbstractMethods(cls.args[1])

\* singledispatch.register(cls, func); func becomes implementation s_count + 1
register(cls) ==
    /\ generic = "singledispatch"
    /\ s_count < MaxRegsS
    /\ IF cls.kind \notin {"class", "union"}
       THEN /\ s_last' = [NoDispatch EXCEPT !.error = "TypeError"]
            /\ UNCHANGED <<registry, s_count, cache_token, dispatch_cache>>
       ELSE /\ registry' = registered(registry, cls, s_count + 1)
            /\ s_count' = s_count + 1
            /\ cache_token' = IF cache_token = NoToken /\ cls_is_abstract(cls)
                              THEN abc_token ELSE cache_token
            /\ dispatch_cache' = {}
            /\ s_last' = NoDispatch
    /\ UNCHANGED <<generic, l_vars, m_vars, abc_registry, abc_token>>

\* The registrations abc.register(subclass) the program makes
VirtualInputs == {<<"A", "int">>, <<"B", "int">>, <<"B", "A">>}

\* ABCMeta.register: abc.register(subclass).  A class that already conforms
\* changes nothing, an inheritance cycle is refused, and a new registration
\* invalidates the caches of the abstract classes (get_cache_token changes).
abc_register(abc, subclass) ==
    /\ generic = "singledispatch"
    /\ ~issubclass(subclass, abc, abc_registry)
    /\ ~issubclass(abc, subclass, abc_registry)
    /\ abc_registry' = abc_registry \cup {<<abc, subclass>>}
    /\ abc_token' = abc_token + 1
    /\ UNCHANGED <<generic, l_vars, m_vars, registry, dispatch_cache, cache_token,
                   s_count, s_last>>

NextS ==
    \/ \E cls \in SRegisterInputs : register(cls)
    \/ \E cls \in DispatchTypes : dispatch(cls)
    \/ \E p \in VirtualInputs : abc_register(p[1], p[2])

\* No call of the linearizer; a call that has not returned
NoLinearizerCall == [fn |-> "none"]
Pending == [error |-> "pending", mro |-> <<>>]

InitM ==
    /\ m_registry = <<[isobject |-> TRUE, key |-> <<>>, impl |-> 0]>>
    /\ m_count = 0
    /\ m_last = NoCall

InitS ==
    /\ registry = <<[key |-> "object", impl |-> 0]>>
    /\ dispatch_cache = {}
    /\ cache_token = NoToken
    /\ s_count = 0
    /\ s_last = NoDispatch
    /\ abc_registry = {}
    /\ abc_token = 1

\* The decorators build independent closures (main.py:54, __init__.py:177):
\* a behaviour follows the generic function one of them made.
Init ==
    /\ generic \in {"multidispatch", "singledispatch"}
    /\ InitM
    /\ InitS
    /\ l_call = NoLinearizerCall
    /\ l_result = Pending

NextM ==
    \/ \E func \in RegisterInputs : multi_register(func)
    \/ \E c \in CallSites : multi_wrapper(c[1], c[2])

Next == NextM \/ NextS

Spec == Init /\ [][Next]_vars

(***************************************************************************)
(* The linearizer called on its own.  _c3_merge is given up to MaxSeqs     *)
(* duplicate-free sequences of classes; _c3_mro a class and up to MaxAbcs  *)
(* distinct abstract candidates, in a hierarchy with some classes          *)
(* registered with some abstract base classes.                             *)
(***************************************************************************)
\* The sequences without repetition over the classes S, up to length n
DuplicateFree(S, n) ==
    UNION {{q \in Tuples(S, k) : \A i, j \in 1..k : i # j => q[i] # q[j]} :
             k \in 0..n}

\* The classes in the sequences given to _c3_merge
MergeTypes == {"object", "A0", "A"}

MergeInputs ==
    UNION {Tuples(DuplicateFree(MergeTypes, Cardinality(MergeTypes)), k) :
             k \in 0..MaxSeqs}

\* The arguments of _c3_mro, and the registrations made with the ABCs before
MroInputs == Types \X DuplicateFree(ABCs, MaxAbcs)
Registrations == SUBSET VirtualInputs

\* result = _c3_merge(sequences)
c3_merge_call ==
    /\ generic = "linearizer"
    /\ l_call.fn = "_c3_merge"
    /\ l_result = Pending
    /\ l_result' = c3_merge(l_call.sequences)
    /\ UNCHANGED <<generic, m_vars, s_vars, l_call>>

\* result = _c3_mro(cls, abcs)
c3_mro_call ==
    /\ generic = "linearizer"
    /\ l_call.fn = "_c3_mro"
    /\ l_result = Pending
    /\ l_result' = c3_mro(l_call.cls, l_call.abcs)
    /\ UNCHANGED <<generic, m_vars, s_vars, l_call>>

InitLinearizer ==
    /\ generic = "linearizer"
    /\ InitM
    /\ registry = <<[key |-> "object", impl |-> 0]>>
    /\ dispatch_cache = {}
    /\ cache_token = NoToken
    /\ s_count = 0
    /\ s_last = NoDispatch
    /\ abc_token = 1
    /\ l_result = Pending
    /\ \/ /\ abc_registry = {}
          /\ \E sequences \in MergeInputs :
                l_call = [fn |-> "_c3_merge", sequences |-> sequences]
       \/ /\ abc_registry \in Registrations
          /\ \E input \in MroInputs :
                l_call = [fn |-> "_c3_mro", cls |-> input[1],
                          abcs |-> input[2]]

NextLinearizer == c3_merge_call \/ c3_mro_call

SpecLinearizer == InitLinearizer /\ [][NextLinearizer]_vars

(***************************************************************************)
(* Properties of multidispatch.                                            *)
(***************************************************************************)
\* The class cls is the class m or a subclass of it, for a member m
Satisfied(cls, specifier) == \E m \in specifier : m \in Range(Mro(cls))

\* The specifiers of key are satisfied at the first n positions
SatisfiedUpTo(arg_types, key, n) ==
    \A p \in 1..n : Satisfied(arg_types[p], key[p])

\* The tuples of classes dispatch may be given
DispatchTuples == UNION {Tuples(MArgTypes, k) : k \in 1..(n_arguments + 1)}

\* The registered (non-default) entries, by position
Registered == {i \in DOMAIN m_registry : ~m_registry[i].isobject}

DefaultImpl == (CHOOSE e \in Range(m_registry) : e.isobject).impl

First(S) == CHOOSE i \in S : \A j \in S : i <= j

\* The last operation was a call that reached dispatch
Called == m_last.op = "call" /\ m_last.error = None
CalledWith == cls_args(m_last.args, m_last.kw)

\* C1 (as claimed): a call with n_arguments classes obtains the
\* implementation of the earliest registration its classes satisfy at every
\* position, whatever was registered later.
C1_EarliestCompatibleWins ==
    (Called /\ Len(CalledWith) = n_arguments) =>
        LET compatible == {i \in Registered :
                SatisfiedUpTo(CalledWith, m_registry[i].key, n_arguments)}
        IN  compatible # {} =>
                m_last.impl = m_registry[First(compatible)].impl

\* C1, the case at hand: the call's classes are a later registration's key
\* while an earlier registration is compatible too.
C1_Witness ==
    /\ Called
    /\ \E i, j \in Registered :
          /\ i < j
          /\ m_registry[j].key = as_key(CalledWith)
          /\ SatisfiedUpTo(CalledWith, m_registry[i].key, n_arguments)

\* C5 (as claimed): the implementation a call obtains never belongs to an
\* entry whose number of specifiers differs from the number of classes.
C5_ArityDisqualifies ==
    Called =>
        \A i \in Registered :
            Len(m_registry[i].key) # Len(CalledWith) =>
                m_last.impl # m_registry[i].impl

\* C5 (amended): an entry whose number of specifiers differs from the number
\* of classes is compared on the positions both have, and its implementation
\* is returned only if every specifier there is satisfied.
C5_ComparedOnCommonPositions ==
    \A a \in DispatchTuples : \A i \in Registered :
        (/\ Len(m_registry[i].key) # Len(a)
         /\ multi_dispatch(a, m_registry) = m_registry[i].impl)
        => SatisfiedUpTo(a, m_registry[i].key,
                         Min(Len(a), Len(m_registry[i].key)))

C5_Witness ==
    /\ Called
    /\ Len(CalledWith) # n_arguments
    /\ \E i \in Registered : m_last.impl = m_registry[i].impl

\* C6: a call with only the first k < n_arguments arguments obtains the
\* first registration whose first k specifiers its classes satisfy, and the
\* default implementation if there is none.
C6_LeadingArguments ==
    \A a \in DispatchTuples :
        Len(a) < n_arguments =>
            LET fits == {i \in Registered :
                           SatisfiedUpTo(a, m_registry[i].key, Len(a))}
            IN  multi_dispatch(a, m_registry) =
                    IF fits = {} THEN DefaultImpl
                    ELSE m_registry[First(fits)].impl

C6_Witness ==
    /\ Called
    /\ m_last.kw = <<>>
    /\ Len(m_last.args) < n_arguments
    /\ \E i, j \in Registered :
          /\ i < j
          /\ SatisfiedUpTo(m_last.args, m_registry[i].key, Len(m_last.args))
          /\ SatisfiedUpTo(m_last.args, m_registry[j].key, Len(m_last.args))
          /\ m_last.impl = m_registry[i].impl

\* The classes of a call's values in declared parameter order
Named(kw, name) == (CHOOSE a \in Range(kw) : a[1] = name)[2]
InDeclaredOrder(args, kw) ==
    args \o [i \in DOMAIN kw |-> Named(kw, ParamNames[Len(args) + i])]

\* C9 (as claimed): a call with named arguments obtains the implementation
\* of the call that passes the same values by position.
C9_NamedAsPositional ==
    Called =>
        m_last.impl =
            multi_dispatch(InDeclaredOrder(m_last.args, m_last.kw), m_registry)

\* C9, the case at hand: named arguments written out of declared order
C9_Witness ==
    /\ Called
    /\ Len(m_last.kw) = n_arguments
    /\ m_last.kw[1][1] # ParamNames[1]
    /\ multi_dispatch(InDeclaredOrder(m_last.args, m_last.kw), m_registry)
          # DefaultImpl

\* C10: an entry matches exactly when at every compared position the class
\* is a member of the specifier or a subclass of a member.
C10_EntryMatches ==
    \A a \in DispatchTuples : \A i \in Registered :
        entry_matches(a, m_registry[i].key)
        <=> SatisfiedUpTo(a, m_registry[i].key,
                          Min(Len(a), Len(m_registry[i].key)))

\* C10, the case at hand: an entry with a union matched by a class that is
\* no member of the union but a subclass of one.
C10_Witness ==
    /\ Called
    /\ \E i \in Registered :
          /\ m_last.impl = m_registry[i].impl
          /\ \E p \in DOMAIN CalledWith :
                /\ p <= n_arguments
                /\ is_union_type(m_registry[i].key[p])
                /\ CalledWith[p] \notin m_registry[i].key[p]

\* The registered entries whose specifiers the classes a satisfy at every
\* position the entry is compared at
SatisfiedEntries(a) ==
    {i \in Registered :
        SatisfiedUpTo(a, m_registry[i].key, Min(Len(a), Len(m_registry[i].key)))}

\* C11: a non-empty tuple of classes that satisfies no registered entry
\* resolves to the default implementation given at definition; the default
\* entry, although first in the registry, takes no part in the comparison: a
\* tuple that satisfies a registered entry resolves to such an entry.
C11_DefaultFallback ==
    /\ DefaultImpl = 0
    /\ \A a \in DispatchTuples :
          IF SatisfiedEntries(a) = {}
          THEN multi_dispatch(a, m_registry) = DefaultImpl
          ELSE multi_dispatch(a, m_registry) \in
                   {m_registry[i].impl : i \in SatisfiedEntries(a)}

\* C11, the case at hand: a call that no registered entry accepts
C11_Witness ==
    /\ Called
    /\ Cardinality(Registered) = 2
    /\ SatisfiedEntries(CalledWith) = {}
    /\ m_last.impl = DefaultImpl

\* A type specifier: a class, or a union all of whose members are classes
IsSpecifier(sp) == sp # {} /\ sp \subseteq Types

\* Every registered key is a tuple of n_arguments specifiers
KeysWellFormed ==
    \A i \in Registered :
        /\ DOMAIN m_registry[i].key = 1..n_arguments
        /\ \A p \in 1..n_arguments : IsSpecifier(m_registry[i].key[p])

\* What register may not accept: another number of parameters, a parameter
\* without annotation, an annotation that is no class and no union of classes
Unacceptable(func) ==
    \/ Len(func) # n_arguments
    \/ \E p \in DOMAIN func : func[p].kind \notin {"class", "union"}

\* A register call with an unacceptable func raises and leaves the registry
\* as it was
RejectedRegisterKeeps ==
    \A func \in RegisterInputs :
        (Unacceptable(func) /\ multi_register(func)) =>
            /\ m_last'.error # None
            /\ m_registry' = m_registry

\* C12: after any register calls, accepted or rejected, every registered key
\* is a tuple of exactly n_arguments specifiers, each a class or a union of
\* classes; a register call with another number of specifiers, an
\* unannotated parameter or an invalid specifier fails and leaves the
\* registry unchanged.
C12_KeysWellFormed == [](KeysWellFormed) /\ [][RejectedRegisterKeeps]_vars

\* C12, the case at hand: a register call rejected after one was accepted
C12_Witness ==
    /\ m_last.op = "register"
    /\ m_last.error # None
    /\ Registered # {}

\* A call raises the empty-call error exactly when it has no argument at all;
\* then nothing is resolved and no implementation is recorded as called; any
\* other call is resolved.  The registry is the same after either.
CallChecksEmpty ==
    \A c \in CallSites :
        (/\ m_last'.args = c[1]
         /\ m_last'.kw = c[2]
         /\ multi_wrapper(c[1], c[2])) =>
            /\ m_registry' = m_registry
            /\ IF c[1] = <<>> /\ c[2] = <<>>
               THEN m_last' = [NoCall EXCEPT
                                 !.op = "call",
                                 !.error = "TypeError: requires argument"]
               ELSE /\ m_last'.error = None
                    /\ m_last'.impl =
                          multi_dispatch(cls_args(c[1], c[2]), m_registry)

\* C14: a call fails with the empty-call error exactly when it supplies
\* neither positional nor named arguments; then no resolution is run, no
\* implementation is invoked and the registry is unchanged; a call with an
\* argument never fails with that error.
C14_EmptyCall ==
    [](m_last.op = "call" =>
          (m_last.error = "TypeError: requires argument"
              <=> (m_last.args = <<>> /\ m_last.kw = <<>>)))
    /\ [][CallChecksEmpty]_vars

\* C14, the case at hand: an empty call of a function with registrations
C14_Witness ==
    /\ m_last.op = "call"
    /\ m_last.error = "TypeError: requires argument"
    /\ Registered # {}

(***************************************************************************)
(* Properties of singledispatch.                                           *)
(***************************************************************************)
\* dispatch(cls) with an empty cache: the registry's own entry, else _find_impl
Resolved(cls) ==
    IF cls \in Range(keys(registry)) THEN Returns(get(registry, cls))
    ELSE find_impl(cls, registry)

Ambiguous == Raises("Ambiguous dispatch")

\* The abstract class abc applies to cls from outside cls.__mro__
AppliesFromOutside(abc, cls) ==
    /\ abc \in ABCs
    /\ abc \notin Range(Mro(cls))
    /\ issubclass(cls, abc, abc_registry)

\* C2 (as claimed): a class that is no key, to which two registered abstract
\* classes apply from outside its __mro__, neither a subclass of the other,
\* resolves to the ambiguous-dispatch error.
C2_UnrelatedAbstractsAreAmbiguous ==
    \A cls \in DispatchTypes \ Range(keys(registry)) :
        \A a, b \in Range(keys(registry)) :
            (/\ a # b
             /\ AppliesFromOutside(a, cls)
             /\ AppliesFromOutside(b, cls)
             /\ ~issubclass(a, b, abc_registry)
             /\ ~issubclass(b, a, abc_registry))
            => find_impl(cls, registry) = Ambiguous

\* C2, the case at hand: dispatch was called for such a class
C2_Witness ==
    /\ s_last.cls \in DispatchTypes \ Range(keys(registry))
    /\ \E a, b \in Range(keys(registry)) :
          /\ a # b
          /\ AppliesFromOutside(a, s_last.cls)
          /\ AppliesFromOutside(b, s_last.cls)
          /\ ~issubclass(a, b, abc_registry)
          /\ ~issubclass(b, a, abc_registry)
          /\ Bases(a) # <<"object">>

\* C3 (as claimed): dispatch(cls) gives what resolving cls against the
\* current registry and hierarchy with an empty cache gives.
C3_CacheTransparent ==
    \A cls \in DispatchTypes : dispatch_outcome(cls) = Resolved(cls)

\* C3, the case at hand: an outcome cached before the hierarchy changed
C3_Witness ==
    /\ abc_token > 1
    /\ \E c \in dispatch_cache : Resolved(c[1]) # Returns(c[2])

\* cls resolves through key: key is the first registered class of the
\* linearization of cls
FirstKeyOf(cls, key) ==
    LET lin == compose_mro(cls, keys(registry))
    IN  /\ lin.error = None
        /\ \E i \in DOMAIN lin.mro :
              /\ lin.mro[i] = key
              /\ \A j \in 1..(i - 1) : lin.mro[j] \notin Range(keys(registry))

\* C4 (as claimed): dispatch of a key returns the key's implementation, and
\* so does dispatch of a subclass whose linearization has no key before it.
C4_SubtypeFallback ==
    \A key \in Range(keys(registry)) :
        /\ key \in DispatchTypes =>
              dispatch_outcome(key) = Returns(get(registry, key))
        /\ \A cls \in DispatchTypes :
              (/\ issubclass(cls, key, abc_registry)
               /\ FirstKeyOf(cls, key))
              => dispatch_outcome(cls) = Returns(get(registry, key))

\* C4, the case at hand: dispatch fell back from a subclass to a key
C4_Witness ==
    /\ s_last.cls \in DispatchTypes \ Range(keys(registry))
    /\ \E key \in Range(keys(registry)) \ {"object"} :
          /\ issubclass(s_last.cls, key, abc_registry)
          /\ FirstKeyOf(s_last.cls, key)

\* The registries that hold the entries of reg in another insertion order
\* (the default implementation is inserted at definition, hence first)
Reordered(reg) ==
    {r \in Tuples(Range(reg), Len(reg)) :
        /\ r[1] = reg[1]
        /\ \A i, j \in DOMAIN r : i # j => r[i] # r[j]}

\* C7 (as claimed): the outcome is the same for every order in which the
\* entries of the registry were inserted.
C7_OrderIrrelevant ==
    \A cls \in DispatchTypes \ Range(keys(registry)) :
        \A r \in Reordered(registry) :
            find_impl(cls, r) = find_impl(cls, registry)

\* C7, the case at hand: dispatch with two or more registered classes
C7_Witness ==
    /\ s_last.cls \in DispatchTypes \ Range(keys(registry))
    /\ Cardinality(Reordered(registry)) > 1

\* C13 (as claimed): the registry of singledispatch holds exactly one entry
\* keyed by object, and its implementation is the default implementation
\* given at definition.
C13_ObjectHoldsDefault ==
    /\ Cardinality({i \in DOMAIN registry : registry[i].key = "object"}) = 1
    /\ get(registry, "object") = 0

\* C13, the case at hand: a dispatch that fell back to the entry of object
\* after register was called with object
C13_Witness ==
    /\ s_last.cls = "int"
    /\ s_last.error = None
    /\ s_last.impl = get(registry, "object")
    /\ s_last.impl > 0

(***************************************************************************)
(* Properties of both dispatchers.                                         *)
(***************************************************************************)
\* The implementations a registry holds
Impls(reg) == {reg[i].impl : i \in DOMAIN reg}

\* A registry after a register call that handed over implementation func:
\* every entry keeps its place and its key, and holds what it held or func;
\* func is held; what is new holds func.
Overwritten(old, new, func) ==
    /\ Len(new) >= Len(old)
    /\ \A i \in DOMAIN old :
          /\ new[i].key = old[i].key
          /\ new[i].impl \in {old[i].impl, func}
    /\ \A i \in DOMAIN new : i > Len(old) => new[i].impl = func
    /\ \E i \in DOMAIN new : new[i].impl = func

\* What resolution can return is what the registry holds: a key has one
\* entry, and the cache holds nothing the registry does not.
ReturnsRegistered ==
    /\ \A i, j \in DOMAIN m_registry :
          (/\ m_registry[i].isobject = m_registry[j].isobject
           /\ m_registry[i].key = m_registry[j].key) => i = j
    /\ \A i, j \in DOMAIN registry :
          registry[i].key = registry[j].key => i = j
    /\ \A a \in DispatchTuples :
          multi_dispatch(a, m_registry) \in Impls(m_registry)
    /\ \A cls \in DispatchTypes :
          dispatch_outcome(cls).error = None =>
              dispatch_outcome(cls).impl \in Impls(registry)

\* A register call puts its implementation in place of the one its key held,
\* and singledispatch forgets what it had cached.
RegisterReplaces ==
    /\ m_count' # m_count => Overwritten(m_registry, m_registry', m_count')
    /\ s_count' # s_count =>
          /\ Overwritten(registry, registry', s_count')
          /\ dispatch_cache' = {}

Returned(fn) == l_call.fn = fn /\ l_result # Pending

\* The non-empty sequences whose head occurs in the tail of no sequence
Selectable(seqs) ==
    {i \in DOMAIN seqs :
        /\ seqs[i] # <<>>
        /\ ~\E j \in DOMAIN seqs :
              \E k \in 2..Len(seqs[j]) : seqs[j][k] = seqs[i][1]}

\* seq with x removed wherever it occurs
Without(seq, x) == SelectSeq(seq, LAMBDA e : e # x)

\* Selecting repeatedly: the head of the first selectable sequence is appended
\* to the result and removed from every sequence, until every sequence is
\* empty; with a non-empty sequence and nothing selectable, the error.
RECURSIVE Selecting(_, _)
Selecting(seqs, result) ==
    IF \A i \in DOMAIN seqs : seqs[i] = <<>>
    THEN [error |-> None, mro |-> result]
    ELSE IF Selectable(seqs) = {}
    THEN [error |-> "Inconsistent hierarchy", mro |-> <<>>]
    ELSE LET head == seqs[First(Selectable(seqs))][1]
         IN  Selecting([i \in DOMAIN seqs |-> Without(seqs[i], head)],
                       Append(result, head))

Occurrences(seq, x) == Cardinality({k \in DOMAIN seq : seq[k] = x})

\* C15: _c3_merge selects repeatedly the head of the first non-empty sequence
\* whose head is in the tail of no sequence, appends it and removes it from
\* every sequence; it raises the inconsistent-hierarchy error exactly when a
\* sequence is non-empty and every head is in some tail; otherwise its
\* result holds every element of the input exactly once.
C15_MergeSelectsHeads ==
    Returned("_c3_merge") =>
        /\ l_result = Selecting(l_call.sequences, <<>>)
        /\ l_result.error = None =>
              /\ \A i \in DOMAIN l_call.sequences :
                    \A x \in Range(l_call.sequences[i]) :
                        Occurrences(l_result.mro, x) = 1
              /\ \A x \in Range(l_result.mro) :
                    \E i \in DOMAIN l_call.sequences :
                        x \in Range(l_call.sequences[i])

\* C15, the case at hand: a merge of three sequences that passed over a head
\* found in a tail and ended with all three classes
C15_Witness ==
    /\ Returned("_c3_merge")
    /\ Len(l_call.sequences) = MaxSeqs
    /\ l_result.error = None
    /\ Len(l_result.mro) = Cardinality(MergeTypes)
    /\ l_call.sequences[1] # <<>>
    /\ l_result.mro[1] # l_call.sequences[1][1]

\* C16 (as claimed): a linearization _c3_mro returns for the class T starts
\* with T, holds no class twice, holds every class before each of its direct
\* bases, and holds an abstract candidate only if T is a subclass of it.
C16_LinearizationSound ==
    (Returned("_c3_mro") /\ l_result.error = None) =>
        LET mro == l_result.mro
            T == l_call.cls
        IN  /\ mro # <<>>
            /\ mro[1] = T
            /\ \A i, j \in DOMAIN mro : i # j => mro[i] # mro[j]
            /\ \A i, j \in DOMAIN mro :
                  mro[j] \in Range(Bases(mro[i])) => i < j
            /\ \A c \in Range(l_call.abcs) :
                  c \in Range(mro) => issubclass(T, c, abc_registry)

\* C16, the case at hand: a linearization with a candidate inserted into it
C16_Witness ==
    /\ Returned("_c3_mro")
    /\ l_result.error = None
    /\ \E c \in Range(l_call.abcs) :
          /\ c \in Range(l_result.mro)
          /\ c \notin Range(Mro(l_call.cls))

====
